---- MODULE Spec2Model ----
(***************************************************************************)
(* Model of the batch compression task manager of CompressionGenie:        *)
(* VideoCompressorUI (the manager, running on the GUI thread),             *)
(* CompressionManager (tasks, active_workers, thread_pool),                *)
(* CompressionWorker (one QThread per admitted task) and compress_video    *)
(* (the job that owns one external ffmpeg process).                        *)
(*                                                                         *)
(* The GUI thread runs one handler at a time.  Worker threads run          *)
(* concurrently with it and talk to it only through queued signals         *)
(* (progress, percentage, finished), which the GUI thread's event loop     *)
(* delivers in the order they were emitted.                                *)
(***************************************************************************)
EXTENDS Integers, Sequences, FiniteSets, TLC

\* ---------------------------------------------------------------- bounds
MaxTasks == 3      \* tasks ever submitted in one run of the model
MaxBound == 2      \* largest value the concurrency spin box is set to
MaxQueue == 2      \* queued signals the event loop has not delivered yet

TaskIds == 1..MaxTasks

\* ---------------------------------------------------------------- state
VARIABLES
    tasks,            \* CompressionManager.tasks: the task ids, in insertion order
    status,           \* CompressionTask.status of every task in tasks
    progress,         \* CompressionTask.progress of every task in tasks
    active_workers,   \* CompressionManager.active_workers: task ids of the workers
    maxThreadCount,   \* CompressionManager.thread_pool.maxThreadCount()
    wpc,              \* position of the worker thread created for a task
    proc,             \* the ffmpeg process launched by a task's worker
    queue,            \* queued signals waiting for the GUI thread's event loop
    notified,         \* the step just taken showed "All compression tasks completed!"
    last,             \* the handler the step just taken ran, with its argument
    job               \* one call of compress_video seen from inside (JobSpec)

vars == <<tasks, status, progress, active_workers, maxThreadCount,
          wpc, proc, queue, notified, last, job>>

\* ---------------------------------------------------------------- helpers
Range(s) == {s[i] : i \in 1..Len(s)}

\* The status strings the code writes.  "Processing..." is written by
\* try_start_task; "msg" stands for any text a worker's progress signal
\* carries ("Processing <file>..." or "Progress: ...% [...]").
PENDING    == "Pending"
PROCESSING == "Processing..."
MSG        == "msg"
COMPLETED  == "Completed"
FAILED     == "Failed"
CANCELLED  == "Cancelled"

Terminal == {COMPLETED, FAILED, CANCELLED}

\* The lifecycle state a status string stands for: every status that is
\* neither "Pending" nor one of the three terminal words is shown while the
\* task is being processed.
State(s) == IF s = PENDING THEN "Pending"
            ELSE IF s \in Terminal THEN s
            ELSE "Running"

\* uuid.uuid4(): an id no existing task has.
new_task_id(ts) == Len(ts) + 1

\* A guard that is off by one: it admits when the bound is already reached.
slot_available_off_by_one(aw, max) == Len(aw) <= max

\* try_start_task's guard: a slot is free.
slot_available(aw, max) == Len(aw) < max

Reverse(s) == [i \in 1..Len(s) |-> s[Len(s) + 1 - i]]

\* A comprehension that yields the Pending ids latest first.
pending_tasks_latest_first(ts, st) ==
    LET IsPending(t) == st[t] = "Pending"
    IN Reverse(SelectSeq(ts, IsPending))

\* A comprehension that takes every task without a worker for Pending,
\* a cancelled one included.
pending_tasks_not_started(ts, st) ==
    LET NotStarted(t) == st[t] \in {"Pending", "Cancelled"}
    IN SelectSeq(ts, NotStarted)

\* A comprehension that takes a Failed task for one still to be started.
pending_tasks_retry_failed(ts, st) ==
    LET ToStart(t) == st[t] \in {"Pending", "Failed"}
    IN SelectSeq(ts, ToStart)

\* The list comprehension of task_finished and cancel_task: the ids whose
\* status is "Pending", in dict (insertion) order.
pending_tasks(ts, st) ==
    LET IsPending(t) == st[t] = PENDING
    IN SelectSeq(ts, IsPending)

\* A removal that leaves the list as it is.
remove_worker_kept(aw, id) == aw

\* active_workers without the worker(s) of task id.
remove_worker(aw, id) ==
    LET Other(t) == t # id
    IN SelectSeq(aw, Other)

\* task_finished's status word.
finished_status(success) == IF success THEN COMPLETED ELSE FAILED

\* An update that writes the status into every task's row.
update_task_status_all(st, id, s) == [t \in DOMAIN st |-> s]

\* update_task_status: task.status = status.
update_task_status(st, id, s) == [st EXCEPT ![id] = s]

\* QThread.terminate() followed by wait(): a thread that is still running is
\* killed where it stands; a thread that already returned is left as it is.
\* The ffmpeg child process is not touched.
terminate(w) == IF w \in {"start", "encode"} THEN "killed" ELSE w

\* The manager's state as a handler sees and changes it.
manager == [status |-> status, active_workers |-> active_workers, wpc |-> wpc,
            tasks |-> tasks]

\* What last holds after a step that is none of start_compression,
\* task_finished and cancel_task.
NoHandler == <<"", 0>>

\* What job holds while the manager is looked at: its jobs are the worker_*
\* actions below, and no call of compress_video is followed line by line.
NoJob == [pc |-> "none"]

\* ---------------------------------------------------------------- Init
Init ==
    /\ tasks = <<>>
    /\ status = <<>>
    /\ progress = <<>>
    /\ active_workers = <<>>
    /\ maxThreadCount \in 1..MaxBound
    /\ wpc = <<>>
    /\ proc = <<>>
    /\ queue = <<>>
    /\ notified = FALSE
    /\ last = NoHandler
    /\ job = NoJob

\* ---------------------------------------------------------------- admission
\* try_start_task(task_id): when a slot is free, create the task's worker,
\* start its thread, append it to active_workers and show "Processing...";
\* otherwise do nothing.  m is the manager's state while a handler runs.
try_start_task(m, id) ==
    IF slot_available(m.active_workers, maxThreadCount)
    THEN [m EXCEPT !.status = update_task_status(m.status, id, PROCESSING),
                   !.active_workers = Append(m.active_workers, id),
                   !.wpc = [m.wpc EXCEPT ![id] = "start"]]
    ELSE m

\* "Start next task if available": try_start_task(pending_tasks[0]).
start_next(m) ==
    LET pending == pending_tasks(m.tasks, m.status)
    IN IF pending # <<>> THEN try_start_task(m, Head(pending)) ELSE m

\* An iteration that starts the new task without asking for a slot.
create_task_unguarded(m) ==
    LET id == new_task_id(m.tasks)
    IN [m EXCEPT !.tasks = Append(m.tasks, id),
                 !.status = Append(m.status, PROCESSING),
                 !.active_workers = Append(m.active_workers, id),
                 !.wpc = Append(m.wpc, "start")]

\* One iteration of start_compression's loop: create the task as Pending,
\* store it under a new id, then try_start_task(task_id).
create_task(m) ==
    LET id == new_task_id(m.tasks)
    IN try_start_task([m EXCEPT !.tasks = Append(m.tasks, id),
                                !.status = Append(m.status, PENDING),
                                !.wpc = Append(m.wpc, "none")], id)

\* start_compression's loop over n input files.
RECURSIVE create_tasks(_, _)
create_tasks(m, n) == IF n = 0 THEN m ELSE create_tasks(create_task(m), n - 1)

\* n elements x appended to s (the fields a new task or worker starts with).
RECURSIVE Extend(_, _, _)
Extend(s, n, x) == IF n = 0 THEN s ELSE Extend(Append(s, x), n - 1, x)

\* ---------------------------------------------------------------- GUI thread
\* What the settings widgets hold when "Compress" is clicked: the quality
\* preset combo, the CRF spin box (range 0..51), the resolution combo with
\* the width and height spin boxes (ranges 128..7680 and 128..4320), the
\* bitrate combo with the Kbps spin box (range 100..50000).
Widgets(quality_preset, crf, resolution, width, height, bitrate, kbps) ==
    [quality_preset |-> quality_preset, crf |-> crf, resolution |-> resolution,
     width |-> width, height |-> height, bitrate |-> bitrate, kbps |-> kbps]

\* A preset with custom widgets left odd, custom settings that are in
\* order, a custom width that is odd, a custom aspect ratio of 25:27.
Settings ==
    {Widgets("Medium Quality", 23, "Custom", 1921, 1081, "Custom", 100),
     Widgets("Custom", 51, "Custom", 1920, 1080, "Custom", 100),
     Widgets("Custom", 23, "Custom", 1921, 1080, "Auto", 2000),
     Widgets("Custom", 0, "Custom", 1000, 1080, "Custom", 2000)}

\* No resolution, no bitrate.
None == <<>>

\* QUALITY_PRESETS: resolution, bitrate and crf of a preset.
QUALITY_PRESETS(name) ==
    CASE name = "Low Quality" ->
           [resolution |-> <<854, 480>>, bitrate |-> <<1, "M">>, crf |-> 28]
      [] name = "Medium Quality" ->
           [resolution |-> <<1280, 720>>, bitrate |-> <<2, "M">>, crf |-> 23]
      [] name = "High Quality" ->
           [resolution |-> <<1920, 1080>>, bitrate |-> <<4, "M">>, crf |-> 18]
      [] name = "Custom" ->
           [resolution |-> None, bitrate |-> None, crf |-> 23]

\* validate_aspect_ratio: abs(width / height - r) < 0.1 for one of 16/9, 4/3
\* and 21/9; |w/h - a/b| < 1/10 is 10 * |w*b - a*h| < b*h.
near(width, height, a, b) ==
    LET d == width * b - a * height
    IN 10 * (IF d < 0 THEN -d ELSE d) < b * height

validate_aspect_ratio(width, height) ==
    near(width, height, 16, 9) \/ near(width, height, 4, 3) \/ near(width, height, 21, 9)

\* get_resolution: None for 'Original', the spin boxes' values for 'Custom'
\* (a ValueError for an aspect ratio validate_aspect_ratio refuses, which
\* validate_settings has then refused before), else resolution_map's pair.
get_resolution(settings) ==
    CASE settings.resolution = "Original" -> None
      [] settings.resolution = "Custom" -> <<settings.width, settings.height>>
      [] settings.resolution = "1080p" -> <<1920, 1080>>
      [] settings.resolution = "720p" -> <<1280, 720>>
      [] settings.resolution = "480p" -> <<854, 480>>

\* get_bitrate: None for 'Auto', f"{kbps//1000}M" or f"{kbps}K" for 'Custom'.
get_bitrate(settings) ==
    IF settings.bitrate = "Auto" THEN None
    ELSE IF settings.kbps >= 1000 THEN <<settings.kbps \div 1000, "M">>
    ELSE <<settings.kbps, "K">>

\* A check that accepts whatever the widgets hold.
validate_settings_accepting(settings) == TRUE

\* validate_settings: True for a quality preset other than 'Custom'; for
\* 'Custom', False (after a warning) for a custom width or height that is
\* odd, a custom aspect ratio that is refused, a custom bitrate under 100.
validate_settings(settings) ==
    \/ settings.quality_preset # "Custom"
    \/ /\ settings.resolution = "Custom" =>
             /\ settings.width % 2 = 0 /\ settings.height % 2 = 0
             /\ validate_aspect_ratio(settings.width, settings.height)
       /\ settings.bitrate = "Custom" => ~(settings.kbps < 100)

\* The crf, resolution and bitrate start_compression gives every task it
\* creates: the preset's, or for 'Custom' the widgets'.
request(settings) ==
    IF settings.quality_preset # "Custom"
    THEN QUALITY_PRESETS(settings.quality_preset)
    ELSE [resolution |-> get_resolution(settings),
          bitrate |-> get_bitrate(settings), crf |-> settings.crf]

\* What last holds after a click that validate_settings refused.
Refused == <<"validate_settings", 0>>

\* start_compression with n input files selected: return when
\* validate_settings refuses the settings (it has shown its warning), else
\* create a task for every file.
start_compression(n, settings) ==
    IF ~validate_settings(settings)
    THEN /\ last' = Refused
         /\ notified' = FALSE
         /\ UNCHANGED <<job, tasks, status, progress, active_workers,
                        maxThreadCount, wpc, proc, queue>>
    ELSE /\ Len(tasks) + n <= MaxTasks
         /\ LET m == create_tasks(manager, n)
            IN /\ tasks' = m.tasks
               /\ status' = m.status
               /\ active_workers' = m.active_workers
               /\ wpc' = m.wpc
         /\ progress' = Extend(progress, n, 0)
         /\ proc' = Extend(proc, n, "none")
         /\ notified' = FALSE
         /\ last' = <<"start_compression", n>>
         /\ UNCHANGED <<job, maxThreadCount, queue>>

\* update_task_progress: task.progress = progress.
update_task_progress(pr, id, p) == [pr EXCEPT ![id] = p]

\* The slots of the worker's progress and percentage signals:
\* update_task_status(task_id, msg) and update_task_progress(task_id, p).
on_progress ==
    /\ queue # <<>>
    /\ Head(queue).kind \in {"progress", "percentage"}
    /\ status' = IF Head(queue).kind = "progress"
                 THEN update_task_status(status, Head(queue).id, MSG)
                 ELSE status
    /\ progress' = IF Head(queue).kind = "percentage"
                   THEN update_task_progress(progress, Head(queue).id, Head(queue).p)
                   ELSE progress
    /\ queue' = Tail(queue)
    /\ notified' = FALSE
    /\ last' = NoHandler
    /\ UNCHANGED <<job, tasks, active_workers, maxThreadCount, wpc, proc>>

\* task_finished(task_id, success, message).
task_finished(id, success) ==
    LET m0 == [manager EXCEPT
                 !.status = update_task_status(status, id, finished_status(success)),
                 !.active_workers = remove_worker(active_workers, id)]
        m1 == start_next(m0)
    IN /\ status' = m1.status
       /\ active_workers' = m1.active_workers
       /\ wpc' = m1.wpc
       /\ notified' = (m1.active_workers = <<>>)
       /\ last' = <<"task_finished", id>>
       /\ UNCHANGED <<job, tasks, progress, maxThreadCount, proc>>

\* The slot of the worker's finished signal.
on_finished ==
    /\ queue # <<>>
    /\ Head(queue).kind = "finished"
    /\ task_finished(Head(queue).id, Head(queue).success)
    /\ queue' = Tail(queue)

\* cancel_task(task_id): the Cancel button of the task's row.
cancel_task(id) ==
    /\ id \in Range(tasks)
    /\ LET active == id \in Range(active_workers)
           m0 == [manager EXCEPT
                    !.active_workers = IF active THEN remove_worker(active_workers, id)
                                       ELSE active_workers,
                    !.wpc = IF active THEN [wpc EXCEPT ![id] = terminate(wpc[id])]
                            ELSE wpc,
                    !.status = update_task_status(status, id, CANCELLED)]
           m1 == start_next(m0)
       IN /\ status' = m1.status
          /\ active_workers' = m1.active_workers
          /\ wpc' = m1.wpc
    /\ notified' = FALSE
    /\ last' = <<"cancel_task", id>>
    /\ UNCHANGED <<job, tasks, progress, maxThreadCount, proc, queue>>

\* A spin box handler that also drops the workers above the new bound.
update_thread_count_preempting(value) ==
    /\ maxThreadCount' = value
    /\ last' = NoHandler
    /\ active_workers' = SubSeq(active_workers, 1,
                                IF Len(active_workers) < value THEN Len(active_workers)
                                ELSE value)
    /\ notified' = FALSE
    /\ UNCHANGED <<job, tasks, status, progress, wpc, proc, queue>>

\* update_thread_count(value): the "Concurrent Tasks" spin box.
update_thread_count(value) ==
    /\ maxThreadCount' = value
    /\ last' = NoHandler
    /\ notified' = FALSE
    /\ UNCHANGED <<job, tasks, status, progress, active_workers, wpc, proc, queue>>

\* apply_settings(settings): the settings dialog was accepted.
apply_settings(max_threads) ==
    /\ maxThreadCount' = max_threads
    /\ last' = NoHandler
    /\ notified' = FALSE
    /\ UNCHANGED <<job, tasks, status, progress, active_workers, wpc, proc, queue>>

\* ---------------------------------------------------------------- workers
\* The signals a worker queues.  progress_handler emits percentage only for a
\* text that contains "time=", and the text compress_video hands to it
\* ("Progress: ...% [...] FPS: ... Size: ... ETA: ...") never does.
progress_event(id) == [kind |-> "progress", id |-> id, success |-> FALSE]
finished_event(id, success) == [kind |-> "finished", id |-> id, success |-> success]
percentage_event(id, p) ==
    [kind |-> "percentage", id |-> id, success |-> FALSE, p |-> p]

\* progress = {}.
EmptyDict == [key \in {} |-> 0]

\* The words of the progress_msg compress_video formats:
\* "Progress: 40.0% [120/360 frames] FPS: 120.0 Size: 2.0MB ETA: 0:00:02".
progress_msg(dict) ==
    [words |-> {"Progress:", "%", "frames]", "FPS:", "Size:", "MB", "ETA:"},
     percentage |-> IF "percentage" \in DOMAIN dict THEN dict.percentage
                    ELSE <<0, 1>>]

\* A handler that finds a time in every text it is given.
emits_percentage_always(output, duration) == TRUE

\* CompressionWorker.progress_handler: whether it emits the percentage
\* signal for this output.  It looks for "time=" in the text; with a duration
\* of 0 the division raises and the bare except swallows it.
emits_percentage(output, duration) == "time=" \in output.words /\ duration # 0

\* The durations (hundredths of a second) and frame counts ffprobe reports;
\* 0 is what get_video_info puts for a value ffprobe does not give (and what
\* CompressionWorker.run takes for a duration it could not read).
Durations == {0, 1000}
FrameCounts == {0, 360}

\* min(int((current_time / self.duration) * 100), 100): the values the
\* percentage signal can carry.
Percentages == {0, 40, 100}

\* What compress_video meets before it launches ffmpeg.
Outcomes == {"launched", "probe failed", "input missing", "launch failed"}

\* CompressionWorker.run up to subprocess.Popen in compress_video: emit
\* progress("Processing <file>..."), probe, check the input, launch ffmpeg;
\* when compress_video returns before the launch, finished.emit(False, message).
worker_run(id, outcome) ==
    /\ id \in Range(tasks)
    /\ wpc[id] = "start"
    /\ IF outcome = "launched"
       THEN /\ Len(queue) < MaxQueue
            /\ wpc' = [wpc EXCEPT ![id] = "encode"]
            /\ proc' = [proc EXCEPT ![id] = "running"]
            /\ queue' = Append(queue, progress_event(id))
       ELSE /\ Len(queue) + 1 < MaxQueue
            /\ wpc' = [wpc EXCEPT ![id] = "done"]
            /\ proc' = proc
            /\ queue' = queue \o <<progress_event(id), finished_event(id, FALSE)>>
    /\ notified' = FALSE
    /\ last' = NoHandler
    /\ UNCHANGED <<job, tasks, status, progress, active_workers, maxThreadCount>>

\* One pass of compress_video's monitoring loop that read a line: parse it and
\* call progress_callback, which is progress_handler: it emits
\* progress(progress_msg) and, for a text in which it finds a time,
\* percentage(p).
worker_read_line(id) ==
    /\ id \in Range(tasks)
    /\ wpc[id] = "encode"
    /\ \E duration \in Durations, p \in Percentages :
         /\ queue' = Append(queue, progress_event(id)) \o
                        (IF emits_percentage(progress_msg(EmptyDict), duration)
                         THEN <<percentage_event(id, p)>> ELSE <<>>)
         /\ Len(queue') <= MaxQueue
    /\ notified' = FALSE
    /\ last' = NoHandler
    /\ UNCHANGED <<job, tasks, status, progress, active_workers, maxThreadCount,
                   wpc, proc>>

\* The ffmpeg process exits on its own.
proc_exit(id) ==
    /\ id \in Range(tasks)
    /\ proc[id] = "running"
    /\ proc' = [proc EXCEPT ![id] = "exited"]
    /\ notified' = FALSE
    /\ last' = NoHandler
    /\ UNCHANGED <<job, tasks, status, progress, active_workers, maxThreadCount,
                   wpc, queue>>

\* compress_video after the monitoring loop (readline returned '' and poll()
\* is not None, here returncode), and run's finished.emit(success, message).
worker_finish(id, returncode, output_exists) ==
    /\ id \in Range(tasks)
    /\ wpc[id] = "encode"
    /\ proc[id] = "exited"
    /\ Len(queue) < MaxQueue
    /\ wpc' = [wpc EXCEPT ![id] = "done"]
    /\ queue' = Append(queue, finished_event(id, returncode = 0 /\ output_exists))
    /\ notified' = FALSE
    /\ last' = NoHandler
    /\ UNCHANGED <<job, tasks, status, progress, active_workers, maxThreadCount,
                   proc>>

\* ---------------------------------------------------------------- Next
Next ==
    \/ \E n \in 1..MaxTasks, settings \in Settings : start_compression(n, settings)
    \/ on_progress
    \/ on_finished
    \/ \E id \in TaskIds : cancel_task(id)
    \/ \E n \in 1..MaxBound : update_thread_count(n)
    \/ \E n \in 1..MaxBound : apply_settings(n)
    \/ \E id \in TaskIds, o \in Outcomes : worker_run(id, o)
    \/ \E id \in TaskIds : worker_read_line(id)
    \/ \E id \in TaskIds : proc_exit(id)
    \/ \E id \in TaskIds, rc \in {0, 1}, e \in BOOLEAN : worker_finish(id, rc, e)

Spec == Init /\ [][Next]_vars

\* ---------------------------------------------------------------- fairness
\* What the scheduling guarantees: the GUI thread's event loop delivers every
\* queued signal; a worker thread that can take its next step is scheduled
\* (strongly fair: the real signal queue is never full, so a step that the
\* bound MaxQueue holds back now and then is still taken); every launched
\* ffmpeg process exits.  Nothing forces the user to submit, to cancel or to
\* change the bound.
Fairness ==
    /\ WF_vars(on_progress)
    /\ WF_vars(on_finished)
    /\ \A id \in TaskIds : SF_vars(\E o \in Outcomes : worker_run(id, o))
    /\ \A id \in TaskIds : WF_vars(proc_exit(id))
    /\ \A id \in TaskIds :
         SF_vars(\E rc \in {0, 1}, e \in BOOLEAN : worker_finish(id, rc, e))

FairSpec == Spec /\ Fairness

\* ================================================================ the job
\* compress_video followed line by line (JobSpec): one call, as
\* CompressionWorker.run makes it, with the ffmpeg process it launches.
\* Times are in hundredths of a second, sizes in bytes, and a fraction n/d is
\* the pair <<n, d>>.

MaxLines == 2      \* lines ffmpeg writes to its stderr in one run

\* ---------------------------------------------------------------- lines
\* A line of ffmpeg's stderr is the sequence of its tokens: free text,
\* "frame=  N", "size=   KkB" (or another unit), "time=HH:MM:SS.ss" (or
\* "time=N/A").
Text == [k |-> "text"]
FrameTok(n) == [k |-> "frame", n |-> n]
SizeTok(n, unit) == [k |-> "size", n |-> n, unit |-> unit]
TimeTok(h, m, cs) == [k |-> "time", na |-> FALSE, h |-> h, m |-> m, cs |-> cs]
TimeNA == [k |-> "time", na |-> TRUE, h |-> 0, m |-> 0, cs |-> 0]

FrameToks == {<<>>, <<FrameTok(120)>>}
SizeToks == {<<>>, <<SizeTok(2048, "kB")>>}
TimeToks == {<<>>, <<TimeTok(0, 0, 400)>>}

\* The lines ffmpeg writes: a log line; progress lines with any of the three
\* tokens; the first progress line (frame 0); a line whose time is past the
\* duration; lines whose time is not known yet or whose size is given in
\* another unit.
Lines ==
    {<<Text>> \o f \o z \o t : f \in FrameToks, z \in SizeToks, t \in TimeToks}
      \cup {<<FrameTok(0), Text, SizeTok(2048, "kB"), TimeTok(0, 0, 400)>>,
            <<FrameTok(120), SizeTok(2048, "kB"), TimeTok(1, 1, 150)>>,
            <<FrameTok(0), SizeTok(0, "kB"), TimeNA>>,
            <<FrameTok(120), SizeTok(2048, "KiB"), TimeTok(0, 0, 400)>>}

\* r'time=(\d+):(\d+):(\d+.\d+)', r'frame=\s*(\d+)', r'size=\s*(\d+)kB', and
\* the plain text 'time='.
time_pattern(tok) == tok.k = "time" /\ ~tok.na
frame_pattern(tok) == tok.k = "frame"
size_pattern(tok) == tok.k = "size" /\ tok.unit = "kB"
has_time(tok) == tok.k = "time"

matches(pattern, tok) ==
    CASE pattern = "time" -> time_pattern(tok)
      [] pattern = "frame" -> frame_pattern(tok)
      [] pattern = "size" -> size_pattern(tok)
      [] pattern = "time=" -> has_time(tok)

\* re.search (and str.split for 'time='): the first place of the line where
\* the pattern matches.
NoMatch == [k |-> "NoMatch"]
search(line, pattern) ==
    LET Here(tok) == matches(pattern, tok)
        found == SelectSeq(line, Here)
    IN IF found = <<>> THEN NoMatch ELSE Head(found)

\* ---------------------------------------------------------------- parser
\* CompressionStats() as compress_video fills it after the probe.
CompressionStats(duration, frame_count) ==
    [duration |-> duration, frame_count |-> frame_count,
     processed_frames |-> 0, processed_duration |-> 0,
     current_fps |-> 0, estimated_time |-> 0, current_size |-> 0]

\* hours * 3600 + minutes * 60 + seconds.
processed_duration(h, m, cs) == h * 360000 + m * 6000 + cs

\* A guard that takes every duration for known.
duration_known_always(stats) == TRUE

\* if stats.duration > 0.
duration_known(stats) == stats.duration > 0

\* min(100, (stats.processed_duration / stats.duration) * 100), for a
\* duration that is not 0.
percentage(stats) ==
    IF stats.processed_duration * 100 >= 100 * stats.duration THEN <<100, 1>>
    ELSE <<stats.processed_duration * 100, stats.duration>>

\* The try block of parse_ffmpeg_progress up to the frame search: the time
\* token and the percentage.
parse_time(line, stats) ==
    LET time_match == search(line, "time")
        s1 == IF time_match = NoMatch THEN stats
              ELSE [stats EXCEPT !.processed_duration =
                      processed_duration(time_match.h, time_match.m, time_match.cs)]
    IN IF time_match # NoMatch /\ duration_known(s1)
       THEN IF s1.duration = 0
            THEN \* stats.processed_duration / 0 raises ZeroDivisionError
                 [stats |-> s1, progress |-> EmptyDict, raised |-> "percentage"]
            ELSE [stats |-> s1, progress |-> [percentage |-> percentage(s1)],
                  raised |-> "none"]
       ELSE [stats |-> s1, progress |-> EmptyDict, raised |-> "none"]

\* The frame token: processed_frames, and when time has passed current_fps,
\* and when the frame count is known estimated_time, whose division raises
\* ZeroDivisionError for a current_fps of 0.
parse_frame(line, r, elapsed_time) ==
    LET frame_match == search(line, "frame")
        s1 == IF frame_match = NoMatch THEN r.stats
              ELSE [r.stats EXCEPT !.processed_frames = frame_match.n]
        s2 == IF frame_match # NoMatch /\ elapsed_time > 0
              THEN [s1 EXCEPT !.current_fps = s1.processed_frames \div elapsed_time]
              ELSE s1
    IN IF frame_match # NoMatch /\ elapsed_time > 0 /\ s2.frame_count > 0
       THEN IF s2.current_fps = 0
            THEN [r EXCEPT !.stats = s2, !.raised = "estimated_time"]
            ELSE [r EXCEPT !.stats =
                    [s2 EXCEPT !.estimated_time =
                       (s2.frame_count - s2.processed_frames) \div s2.current_fps]]
       ELSE [r EXCEPT !.stats = s2]

\* The size token: current_size = int(kB) * 1024.
parse_size(line, r) ==
    LET size_match == search(line, "size")
    IN IF size_match = NoMatch THEN r
       ELSE [r EXCEPT !.stats.current_size = size_match.n * 1024]

\* progress.update({...}).
update_progress(r) ==
    [r EXCEPT !.progress =
       [frame |-> r.stats.processed_frames, fps |-> r.stats.current_fps,
        size |-> r.stats.current_size, time |-> r.stats.processed_duration,
        estimated_time |-> r.stats.estimated_time] @@ r.progress]

\* parse_ffmpeg_progress(line, stats), elapsed_time being what
\* time.time() - stats.start_time yields (whole seconds): the stats as the
\* call leaves them, the dict it returns, and the place where an exception
\* was raised (and caught by the except clause, which returns the dict as it
\* then is).
parse_ffmpeg_progress(line, stats, elapsed_time) ==
    LET r1 == parse_time(line, stats)
        r2 == IF r1.raised = "none" THEN parse_frame(line, r1, elapsed_time) ELSE r1
        r3 == IF r2.raised = "none" THEN update_progress(parse_size(line, r2)) ELSE r2
    IN r3

\* ---------------------------------------------------------------- job state
MaxPipe == 1       \* lines waiting unread in the stderr pipe

\* The manager's variables, which a job leaves alone.
mvars == <<tasks, status, progress, active_workers, maxThreadCount,
           wpc, proc, queue, notified, last>>

NoResult == [success |-> FALSE, message |-> "none", error_output |-> <<>>]
Done(success, message, error_output) ==
    [success |-> success, message |-> message, error_output |-> error_output]

\* A command that always names output_path.
target_path_final(j) == "output_path"

\* temp_output and output_path: the file ffmpeg is told to write.
target_path(j) == IF j.temp_dir THEN "temp_output" ELSE "output_path"

\* The except clause of compress_video: remove temp_output when there
\* is one, return (False, "Error during compression: ...").
except_return(j) ==
    [j EXCEPT !.pc = "done",
              !.files = IF j.temp_dir THEN j.files \ {"temp_output"} ELSE j.files,
              !.result = Done(FALSE, "Error during compression", <<>>)]

\* The state of a job when compress_video is entered: files are the files
\* that exist among temp_output and output_path, output tells what
\* output_path holds ("absent", the "old" file that was there before, or
\* the "new" one this job has put there).
JobInit ==
    /\ tasks = <<>> /\ status = <<>> /\ progress = <<>> /\ active_workers = <<>>
    /\ maxThreadCount = 1
    /\ wpc = <<>> /\ proc = <<>> /\ queue = <<>>
    /\ notified = FALSE /\ last = NoHandler
    /\ \E temp_dir \in BOOLEAN, old \in SUBSET {"output_path"} :
         job = [pc |-> "probe", temp_dir |-> temp_dir, files |-> old,
                output |-> IF old = {} THEN "absent" ELSE "old",
                stats |-> CompressionStats(0, 0),
                video_info |-> "none", input |-> "unchecked",
                process |-> "none", returncode |-> 0,
                stderr |-> <<>>, written |-> 0,
                progress |-> EmptyDict, raised |-> "none", parsed |-> <<>>,
                before |-> CompressionStats(0, 0),
                progress_signals |-> 0, percentage_signals |-> 0,
                result |-> NoResult]

\* ---------------------------------------------------------------- job steps
\* video_info = get_video_info(input_path); "if not video_info: return False,
\* 'Failed to get video information'".  get_video_info returns {} when
\* ffprobe fails or its output cannot be read.
job_probe(ok, duration, frame_count) ==
    /\ job.pc = "probe"
    /\ job' = IF ok
              THEN [job EXCEPT !.pc = "check", !.video_info = "info",
                               !.stats = CompressionStats(duration, frame_count)]
              ELSE [job EXCEPT !.pc = "done", !.video_info = "empty",
                               !.result = Done(FALSE, "Failed to get video information",
                                               <<>>)]
    /\ UNCHANGED mvars

\* A check that goes on to the launch whatever it found.
job_check_input_unchecked(exists, readable) ==
    /\ job.pc = "check"
    /\ job' = [job EXCEPT !.pc = "launch",
                          !.input = IF ~exists THEN "missing"
                                    ELSE IF ~readable THEN "unreadable" ELSE "ok"]
    /\ UNCHANGED mvars

\* os.path.exists(input_path) and os.access(input_path, os.R_OK); input is
\* what the two calls found.
job_check_input(exists, readable) ==
    /\ job.pc = "check"
    /\ job' = IF ~exists
              THEN [job EXCEPT !.pc = "done", !.input = "missing",
                               !.result = Done(FALSE, "Input file not found", <<>>)]
              ELSE IF ~readable
              THEN [job EXCEPT !.pc = "done", !.input = "unreadable",
                               !.result = Done(FALSE, "Input file is not readable", <<>>)]
              ELSE [job EXCEPT !.pc = "launch", !.input = "ok"]
    /\ UNCHANGED mvars

\* process = subprocess.Popen(command, stdout=PIPE, stderr=PIPE); an OSError
\* (no ffmpeg to run) goes to the except clause.
job_launch(ok) ==
    /\ job.pc = "launch"
    /\ job' = IF ok THEN [job EXCEPT !.pc = "monitor", !.process = "running"]
              ELSE except_return(job)
    /\ UNCHANGED mvars

\* ffmpeg writes a line to its stderr.
encoder_write(line) ==
    /\ job.pc # "none"
    /\ job.process = "running"
    /\ job.written < MaxLines
    /\ Len(job.stderr) < MaxPipe
    /\ job' = [job EXCEPT !.stderr = Append(@, line), !.written = @ + 1]
    /\ UNCHANGED mvars

\* ffmpeg exits by itself with this code, closing its stderr; wrote tells
\* whether it has written (a part of) the file it was told to write ("-y").
encoder_exit(returncode, wrote) ==
    /\ job.pc # "none"
    /\ job.process = "running"
    /\ job' = [job EXCEPT !.process = "exited", !.returncode = returncode,
                          !.files = IF wrote THEN @ \cup {target_path(job)} ELSE @,
                          !.output = IF wrote /\ target_path(job) = "output_path"
                                     THEN "new" ELSE @]
    /\ UNCHANGED mvars

\* ffmpeg writes to its stdout more than the pipe holds: stdout=PIPE is read
\* by nobody, so the write never returns and ffmpeg neither writes on nor
\* exits.
encoder_write_stdout ==
    /\ job.pc # "none"
    /\ job.process = "running"
    /\ job' = [job EXCEPT !.process = "blocked"]
    /\ UNCHANGED mvars

\* One pass of the monitoring loop in which readline returned a line: parse
\* it and, for a dict that is not empty, format progress_msg and call
\* progress_callback (progress_handler: progress.emit, and percentage.emit
\* for a text with "time=").
job_read_line(elapsed_time) ==
    /\ job.pc = "monitor"
    /\ job.stderr # <<>>
    /\ LET output == Head(job.stderr)
           r == parse_ffmpeg_progress(output, job.stats, elapsed_time)
           called == DOMAIN r.progress # {}
           msg == progress_msg(r.progress)
       IN job' = [job EXCEPT
                    !.stderr = Tail(@),
                    !.before = job.stats,
                    !.stats = r.stats,
                    !.progress = r.progress,
                    !.raised = r.raised,
                    !.parsed = output,
                    !.progress_signals = IF called /\ @ < MaxLines THEN @ + 1 ELSE @,
                    !.percentage_signals =
                       IF called /\ emits_percentage(msg, job.stats.duration)
                       THEN @ + 1 ELSE @]
    /\ UNCHANGED mvars

\* The pass in which readline returned '' (end of file) and poll() is not
\* None: break.
job_loop_exit ==
    /\ job.pc = "monitor"
    /\ job.stderr = <<>>
    /\ job.process = "exited"
    /\ job' = [job EXCEPT !.pc = "returncode"]
    /\ UNCHANGED mvars

\* returncode = process.poll(); "if returncode != 0": error_output =
\* process.stderr.read(), what is left in the pipe; return (False,
\* f"Compression failed: {error_output}").
job_returncode ==
    /\ job.pc = "returncode"
    /\ job' = IF job.returncode # 0
              THEN [job EXCEPT !.pc = "done",
                               !.stderr = <<>>,
                               !.result = Done(FALSE, "Compression failed", job.stderr)]
              ELSE [job EXCEPT !.pc = "move"]
    /\ UNCHANGED mvars

\* A check that takes the output for created.
output_missing_never(files) == FALSE

\* not os.path.exists(output_path).
output_missing(files) == "output_path" \notin files

\* "if temp_output and os.path.exists(temp_output): shutil.move(temp_output,
\* output_path)", which raises when the file cannot be moved (ok is FALSE)
\* and so goes to the except clause; then "if not os.path.exists(output_path):
\* return False, 'Output file was not created'".
job_move(ok) ==
    /\ job.pc = "move"
    /\ LET moves == job.temp_dir /\ "temp_output" \in job.files
           moved == IF moves
                    THEN (job.files \ {"temp_output"}) \cup {"output_path"}
                    ELSE job.files
           output == IF moves THEN "new" ELSE job.output
       IN job' = IF moves /\ ~ok
                 THEN except_return(job)
                 ELSE IF output_missing(moved)
                 THEN [job EXCEPT !.pc = "done", !.files = moved, !.output = output,
                                  !.result = Done(FALSE, "Output file was not created",
                                                  <<>>)]
                 ELSE [job EXCEPT !.pc = "result", !.files = moved, !.output = output]
    /\ UNCHANGED mvars

\* The sizes and the reduction: os.path.getsize(input_path) raises when the
\* input is gone and the division by input_size raises when it is 0, which
\* goes to the except clause; otherwise return (True, "Compression
\* successful! ...").
job_result(input_size) ==
    /\ job.pc = "result"
    /\ job' = IF input_size > 0
              THEN [job EXCEPT !.pc = "done",
                               !.result = Done(TRUE, "Compression successful!", <<>>)]
              ELSE except_return(job)
    /\ UNCHANGED mvars

JobNext ==
    \/ \E ok \in BOOLEAN, d \in Durations, n \in FrameCounts : job_probe(ok, d, n)
    \/ \E e \in BOOLEAN, r \in BOOLEAN : job_check_input(e, r)
    \/ \E ok \in BOOLEAN : job_launch(ok)
    \/ \E line \in Lines : encoder_write(line)
    \/ \E rc \in {0, 1}, wrote \in BOOLEAN : encoder_exit(rc, wrote)
    \/ encoder_write_stdout
    \/ \E t \in {0, 1} : job_read_line(t)
    \/ job_loop_exit
    \/ job_returncode
    \/ \E ok \in BOOLEAN : job_move(ok)
    \/ \E size \in {0, 1} : job_result(size)

JobSpec == JobInit /\ [][JobNext]_vars

\* ================================================================ the worker with stop()
\* compression_worker.py: a CompressionWorker that runs ffmpeg itself and can
\* be stopped (WorkerSpec).  The ffmpeg process is the one of encoder_write
\* and encoder_exit.

\* min(int((current_time / self.duration) * 100), 100), for a duration > 0.
worker_percentage(current_time, duration) ==
    IF current_time * 100 >= 100 * duration THEN 100
    ELSE (current_time * 100) \div duration

\* The exit codes of an ffmpeg that process.terminate() ended: killed by
\* SIGTERM, or 255 when ffmpeg caught the signal and exited.
TerminatedCodes == {-15, 255}

\* The state of a worker when run is entered.
WorkerInit ==
    /\ tasks = <<>> /\ status = <<>> /\ progress = <<>> /\ active_workers = <<>>
    /\ maxThreadCount = 1
    /\ wpc = <<>> /\ proc = <<>> /\ queue = <<>>
    /\ notified = FALSE /\ last = NoHandler
    /\ job = [pc |-> "launch", temp_dir |-> FALSE, files |-> {},
              output |-> "absent",
              process |-> "none", returncode |-> 0, signalled |-> FALSE,
              stderr |-> <<>>, written |-> 0,
              emitted |-> <<>>, has_duration |-> FALSE, duration |-> 0,
              percent |-> 0, percentage_signals |-> 0,
              result |-> NoResult]

\* run: build the command and self.process = subprocess.Popen(...); an
\* exception goes to finished.emit(False, "Error during compression: ...").
run_launch(ok) ==
    /\ job.pc = "launch"
    /\ job' = IF ok THEN [job EXCEPT !.pc = "poll", !.process = "running"]
              ELSE [job EXCEPT !.pc = "done",
                               !.result = Done(FALSE, "Error during compression", <<>>)]
    /\ UNCHANGED mvars

\* The top of the loop: "if self.process.poll() is not None: break".
run_poll ==
    /\ job.pc = "poll"
    /\ job' = [job EXCEPT !.pc = IF job.process = "exited" THEN "returncode"
                                 ELSE "readline"]
    /\ UNCHANGED mvars

\* line = self.process.stderr.readline(), which waits for a line or for the
\* end of the stream; for a line, progress.emit(line.strip()) and, for a line
\* with 'time=', the percentage: the text after the first 'time=' is split at
\* ':' and converted, the duration is asked of ffprobe when it is not known
\* yet (probed, duration: what ffprobe answers), and percentage.emit for a
\* duration > 0; every exception in that is passed over.
run_readline(probed, duration) ==
    /\ job.pc = "readline"
    /\ job.stderr # <<>> \/ job.process = "exited"
    /\ IF job.stderr = <<>>
       THEN job' = [job EXCEPT !.pc = "poll"]
       ELSE LET line == Head(job.stderr)
                tok == search(line, "time=")
                converts == tok # NoMatch /\ ~tok.na
                asks == converts /\ ~job.has_duration
                known == job.has_duration \/ (asks /\ probed)
                d == IF job.has_duration THEN job.duration ELSE duration
                emits == converts /\ known /\ d > 0
            IN job' = [job EXCEPT
                         !.pc = "poll",
                         !.stderr = Tail(@),
                         !.emitted = line,
                         !.has_duration = known,
                         !.duration = IF known THEN d ELSE @,
                         !.percent =
                            IF emits
                            THEN worker_percentage(
                                   processed_duration(tok.h, tok.m, tok.cs), d)
                            ELSE @,
                         !.percentage_signals =
                            IF emits /\ @ < MaxLines THEN @ + 1 ELSE @]
    /\ UNCHANGED mvars

\* After the loop: finished.emit(True, "Compression completed successfully!")
\* for a returncode of 0, else error_output = self.process.stderr.read() and
\* finished.emit(False, f"Compression failed: {error_output}").
run_finish ==
    /\ job.pc = "returncode"
    /\ job' = IF job.returncode = 0
              THEN [job EXCEPT !.pc = "done",
                               !.result = Done(TRUE, "Compression completed successfully!",
                                               <<>>)]
              ELSE [job EXCEPT !.pc = "done", !.stderr = <<>>,
                               !.result = Done(FALSE, "Compression failed", job.stderr)]
    /\ UNCHANGED mvars

\* stop(): "if self.process: self.process.terminate()", called from another
\* thread to cancel the job.  A process that still runs is ended with one of
\* TerminatedCodes (also one that waits in a write); one that has exited is
\* left as it is.
stop(returncode) ==
    /\ job.pc \in {"poll", "readline", "returncode", "done"}
    /\ job.process # "none"
    /\ job' = IF job.process \in {"running", "blocked"}
              THEN [job EXCEPT !.process = "exited", !.returncode = returncode,
                               !.signalled = TRUE]
              ELSE job
    /\ UNCHANGED mvars

WorkerNext ==
    \/ \E ok \in BOOLEAN : run_launch(ok)
    \/ run_poll
    \/ \E probed \in BOOLEAN, d \in Durations : run_readline(probed, d)
    \/ run_finish
    \/ \E rc \in TerminatedCodes : stop(rc)
    \/ \E line \in Lines : encoder_write(line)
    \/ \E rc \in {0, 1}, wrote \in BOOLEAN : encoder_exit(rc, wrote)
    \/ encoder_write_stdout

WorkerSpec == WorkerInit /\ [][WorkerNext]_vars

\* ================================================================ claims
Ids == 1..Len(tasks)
Running == Range(active_workers)
Admitted == Range(active_workers') \ Range(active_workers)
Pos(ts, id) == CHOOSE i \in 1..Len(ts) : ts[i] = id
PendingIds == {t \in Ids : status[t] = PENDING}
\* The Pending task that was submitted first.
EarliestPending ==
    CHOOSE t \in PendingIds : \A u \in PendingIds : Pos(tasks, t) <= Pos(tasks, u)
\* The step is the delivery of the finished signal of task id.
FinishedStep(id) == on_finished /\ Head(queue).id = id

\* C1 (as stated): in every reachable state the number of tasks with a worker
\* in active_workers is at most thread_pool.maxThreadCount().
C1_RunningWithinBound == Len(active_workers) <= maxThreadCount

\* C1 (amended): no admission takes the Running count above the bound, and a
\* count that is within the bound stays within it under every step that does
\* not lower the bound; only lowering the bound leaves the count above it.
C1_AdmissionWithinBound ==
    [][/\ (Admitted # {} => Len(active_workers') <= maxThreadCount')
       /\ (Len(active_workers) <= maxThreadCount /\ maxThreadCount' >= maxThreadCount
             => Len(active_workers') <= maxThreadCount')
       /\ (Len(active_workers) > maxThreadCount
             => Len(active_workers') <= Len(active_workers))]_vars

\* A third task waits while the Running count is at the bound of two.
C1_Witness ==
    /\ last = <<"start_compression", 1>>
    /\ maxThreadCount = 2
    /\ Len(active_workers) = 2
    /\ Len(tasks) = 3
    /\ PendingIds # {}

\* C2: every change of a task's lifecycle state is Pending->Running,
\* Running->Completed, Running->Failed, Running->Cancelled or
\* Pending->Cancelled, so a terminal state never changes again.
C2_Transitions ==
    [][\A t \in Ids :
         State(status'[t]) # State(status[t]) =>
           <<State(status[t]), State(status'[t])>> \in
             {<<"Pending", "Running">>, <<"Running", COMPLETED>>,
              <<"Running", FAILED>>, <<"Running", CANCELLED>>,
              <<"Pending", CANCELLED>>}]_vars

\* C3: no step admits a task while a task submitted before it is Pending and
\* stays Pending.
C3_FifoAdmission ==
    [][\A t \in Admitted : \A u \in PendingIds :
         Pos(tasks', u) < Pos(tasks', t) => status'[u] # PENDING]_vars

\* C4: cancel_task on a task with a worker in active_workers leaves it
\* Cancelled and out of active_workers, and when a task is Pending and the
\* remaining Running count is below the bound, the earliest Pending task is
\* Running afterwards.
C4_CancelRunning ==
    [][\A id \in Ids :
         (cancel_task(id) /\ id \in Running) =>
           /\ status'[id] = CANCELLED
           /\ id \notin Range(active_workers')
           /\ (PendingIds # {} /\ Len(active_workers) - 1 < maxThreadCount
                 => /\ EarliestPending \in Range(active_workers')
                    /\ State(status'[EarliestPending]) = "Running"
                    /\ wpc'[EarliestPending] = "start")]_vars

\* Task 1 was cancelled while its thread ran, task 2 took its slot and task 3
\* still waits.
C4_Witness ==
    /\ last = <<"cancel_task", 1>>
    /\ Len(tasks) = 3
    /\ maxThreadCount = 1
    /\ status[1] = CANCELLED /\ wpc[1] = "killed"
    /\ active_workers = <<2>> /\ wpc[2] = "start"
    /\ status[3] = PENDING

\* C5: after cancel_task on a task with a worker in active_workers, the
\* ffmpeg process launched for that task is not running.
C5_CancelStopsEncoder ==
    [][\A id \in Ids :
         (cancel_task(id) /\ id \in Running) => proc'[id] # "running"]_vars

\* C6: cancel_task on a Pending task leaves it Cancelled without a worker,
\* and a task that is Cancelled without ever having had a worker stays so:
\* no later step gives it a worker, a process or another status.
C6_CancelledPendingNeverRuns ==
    [][\A t \in Ids :
         /\ (cancel_task(t) /\ status[t] = PENDING =>
               status'[t] = CANCELLED /\ wpc'[t] = "none")
         /\ (status[t] = CANCELLED /\ wpc[t] = "none" =>
               /\ status'[t] = CANCELLED
               /\ wpc'[t] = "none"
               /\ proc'[t] = "none"
               /\ t \notin Range(active_workers'))]_vars

\* Task 2 was cancelled while Pending and task 3, submitted after it, runs.
C6_Witness ==
    /\ last = <<"task_finished", 1>>
    /\ Len(tasks) = 3
    /\ wpc[3] = "start"
    /\ status[2] = CANCELLED /\ wpc[2] = "none" /\ proc[2] = "none"
    /\ 3 \in Running
    /\ status[1] \in {COMPLETED, FAILED}

\* C7: cancel_task on a task that is Completed, Failed or Cancelled leaves
\* the task's status as it was and produces no terminal event for it (no
\* finished signal is queued, no completion message is shown).
C7_CancelTerminalNoOp ==
    [][\A id \in Ids :
         (cancel_task(id) /\ status[id] \in Terminal) =>
           /\ status'[id] = status[id]
           /\ queue' = queue
           /\ ~notified']_vars

\* C8: start_compression stores every new task under an id no other task
\* has, with progress 0; going through the new tasks in order, a task is
\* Running exactly when fewer than maxThreadCount tasks were Running when it
\* was created, and Pending otherwise; the tasks already there are untouched.
C8_Submit ==
    [][Len(tasks') > Len(tasks) =>
         LET free == IF maxThreadCount > Len(active_workers)
                     THEN maxThreadCount - Len(active_workers) ELSE 0
         IN /\ \A i \in 1..Len(tasks) : tasks'[i] = tasks[i] /\ status'[i] = status[i]
            /\ \A i \in Len(tasks) + 1..Len(tasks') :
                 /\ tasks'[i] \notin Range(tasks)
                 /\ \A j \in 1..Len(tasks') : j # i => tasks'[j] # tasks'[i]
                 /\ progress'[tasks'[i]] = 0
                 /\ IF i - Len(tasks) <= free
                    THEN /\ State(status'[tasks'[i]]) = "Running"
                         /\ tasks'[i] \in Range(active_workers')
                    ELSE /\ status'[tasks'[i]] = PENDING
                         /\ tasks'[i] \notin Range(active_workers')
                         /\ wpc'[tasks'[i]] = "none"]_vars

\* Two tasks were submitted with the bound at one: the first runs, the second
\* is Pending with progress 0 and no worker.
C8_Witness ==
    /\ last = <<"start_compression", 2>>
    /\ Len(tasks) = 2
    /\ maxThreadCount = 1
    /\ active_workers = <<1>>
    /\ status[2] = PENDING /\ progress[2] = 0 /\ wpc[2] = "none"

\* C9: when the finished signal of a task with a worker in active_workers is
\* handled while a task is Pending and the remaining Running count is below
\* the bound, the earliest Pending task is Running when the handler returns.
C9_FinishAdmitsEarliest ==
    [][\A id \in Ids :
         (FinishedStep(id) /\ id \in Running /\ PendingIds # {}
            /\ Len(active_workers) - 1 < maxThreadCount) =>
           /\ status'[id] \in {COMPLETED, FAILED}
           /\ EarliestPending \in Range(active_workers')
           /\ State(status'[EarliestPending]) = "Running"
           /\ wpc'[EarliestPending] = "start"
           /\ \A u \in PendingIds \ {EarliestPending} : status'[u] = PENDING]_vars

\* Three tasks with the bound at two: one of the first two is Completed and
\* the third, which waited, has just been started in its place.
C9_Witness ==
    /\ last = <<"task_finished", 1>>
    /\ Len(tasks) = 3
    /\ maxThreadCount = 2
    /\ status[1] = COMPLETED
    /\ active_workers = <<2, 3>>
    /\ wpc[3] = "start" /\ status[3] = PROCESSING

\* C10: a step that changes the bound changes nothing else (no status, no
\* worker, no entry of active_workers), and a Pending task is admitted only
\* when the Running count it joins is below the bound in force.
C10_SetConcurrency ==
    [][/\ (maxThreadCount' # maxThreadCount =>
             UNCHANGED <<tasks, status, progress, active_workers, wpc, proc, queue>>)
       /\ (\A t \in PendingIds :
             t \in Range(active_workers') =>
               Len(active_workers') - 1 < maxThreadCount)]_vars

\* The bound was lowered to one while two tasks run; both keep running and
\* the third task still waits.
C10_Witness ==
    /\ maxThreadCount = 1
    /\ Len(active_workers) = 2
    /\ \A t \in Running : wpc[t] \in {"start", "encode"}
    /\ PendingIds # {}

\* C11: under FairSpec no submitted task stays Pending or Running forever:
\* again and again its status is one of Completed, Failed and Cancelled.
C11_EveryTaskSettles ==
    \A t \in TaskIds : []<>(t \in Ids => status[t] \in Terminal)


\* C12: a worker (and with it a job and its ffmpeg process) is created for a
\* task at most once: a task that has or had a worker is never admitted again
\* and never gets a new thread, whatever its status (Failed included), and a
\* worker launches ffmpeg at most once and never starts over.
C12_AdmittedOnce ==
    [][\A t \in Ids :
         /\ (wpc[t] # "none" =>
               /\ t \notin Admitted
               /\ wpc'[t] # "none"
               /\ (wpc'[t] = "start" => wpc[t] = "start"))
         /\ (proc[t] # "none" =>
               /\ proc'[t] # "none"
               /\ (proc'[t] = "running" => proc[t] = "running"))]_vars

\* Task 1 failed with nobody waiting: its finished signal was handled, a slot
\* is free, and the task stays Failed with its one worker done.
C12_Witness ==
    /\ last = <<"task_finished", 1>>
    /\ status[1] = FAILED
    /\ wpc[1] = "done"
    /\ proc[1] = "exited"
    /\ active_workers = <<>>
    /\ PendingIds = {}

\* C13: handling the finished signal of a failed task changes only that
\* task's status and its entry in active_workers, and admits at most one task,
\* which was Pending; the status, progress, worker and process of every other
\* task (every other Running task among them) are unchanged, every other
\* Running task stays in active_workers, and the bound is unchanged.
C13_FailureIsLocal ==
    [][\A id \in Ids :
         (FinishedStep(id) /\ ~Head(queue).success) =>
           /\ status'[id] = FAILED
           /\ id \notin Range(active_workers')
           /\ Admitted \subseteq PendingIds
           /\ Cardinality(Admitted) <= 1
           /\ \A u \in Ids \ ({id} \cup Admitted) :
                /\ status'[u] = status[u]
                /\ wpc'[u] = wpc[u]
                /\ (u \in Running => u \in Range(active_workers'))
           /\ progress' = progress
           /\ proc' = proc
           /\ wpc'[id] = wpc[id]
           /\ tasks' = tasks
           /\ maxThreadCount' = maxThreadCount]_vars

\* Task 1 failed while task 2 was encoding and task 3 waited behind a bound
\* of two: task 2 still encodes and task 3 was started.
C13_Witness ==
    /\ last = <<"task_finished", 1>>
    /\ Len(tasks) = 3
    /\ status[1] = FAILED
    /\ active_workers = <<2, 3>>
    /\ wpc[2] = "encode" /\ proc[2] = "running" /\ State(status[2]) = "Running"
    /\ wpc[3] = "start"

\* C14: whenever the handling of a finished signal or a cancel_task leaves
\* active_workers empty and no task Pending, that step shows the all-complete
\* message.
C14_AllCompleteNotified ==
    [][((on_finished \/ \E id \in Ids : cancel_task(id))
          /\ active_workers' = <<>>
          /\ \A t \in 1..Len(tasks') : status'[t] # PENDING)
         => notified']_vars

\* C15: ffmpeg is launched only after get_video_info returned the video's
\* information and the input was found to exist and to be readable; a job
\* whose probe failed ends with (False, "Failed to get video information"),
\* a job whose input is missing or unreadable ends with a failure, and
\* neither has created a process.
C15_LaunchAfterChecks ==
    /\ job.process # "none" => job.video_info = "info" /\ job.input = "ok"
    /\ job.pc \in {"launch", "monitor"} => job.video_info = "info" /\ job.input = "ok"
    /\ job.video_info = "empty" =>
         /\ job.pc = "done"
         /\ job.result = Done(FALSE, "Failed to get video information", <<>>)
         /\ job.process = "none"
    /\ job.input \in {"missing", "unreadable"} =>
         /\ job.pc = "done"
         /\ ~job.result.success
         /\ job.result.message \in {"Input file not found", "Input file is not readable"}
         /\ job.process = "none"

\* The probe succeeded, the input was then found unreadable, and the job has
\* ended with a failure without a process.
C15_Witness ==
    /\ job.pc = "done"
    /\ job.video_info = "info"
    /\ job.input = "unreadable"
    /\ job.result.message = "Input file is not readable"
    /\ job.process = "none"

\* C16: a job whose ffmpeg exited with a code other than 0 ends with a
\* failure whose message carries what ffmpeg wrote to its stderr: the
\* error_output in it is not empty when ffmpeg wrote lines before it exited.
C16_FailureCarriesDiagnostics ==
    (job.pc = "done" /\ job.process = "exited" /\ job.returncode # 0) =>
        /\ ~job.result.success
        /\ job.result.message = "Compression failed"
        /\ (job.written > 0 => job.result.error_output # <<>>)

\* C17: a job ends with success only if ffmpeg exited with code 0 and, after
\* the move of temp_output, output_path exists; a job whose ffmpeg exited
\* with code 0 while output_path does not exist after the move ends with a
\* failure ("Output file was not created", or the except clause's message
\* when the move itself raised).
C17_SuccessNeedsOutput ==
    /\ job.result.success =>
         /\ job.pc = "done"
         /\ job.process = "exited"
         /\ job.returncode = 0
         /\ "output_path" \in job.files
         /\ "temp_output" \notin job.files
    /\ (job.pc = "done" /\ job.process = "exited" /\ job.returncode = 0
          /\ "output_path" \notin job.files) =>
         /\ ~job.result.success
         /\ job.result.message \in {"Output file was not created",
                                    "Error during compression"}

\* ffmpeg wrote the scratch file and exited with code 0; the file was moved
\* to output_path, which did not exist before, and the job ended with success.
C17_Witness ==
    /\ job.pc = "done"
    /\ job.temp_dir
    /\ job.returncode = 0
    /\ job.files = {"output_path"}
    /\ job.result.success

\* C18: a job whose ffmpeg process was ended by stop() emits neither a
\* success nor a failure: no finished(True, ...) and no finished(False, ...)
\* follows the termination.
C18_StoppedJobEmitsNoResult ==
    job.signalled => job.result = NoResult

\* C19: after parse_ffmpeg_progress has parsed a line with a frame=N token, a
\* size=KkB token and a time=HH:MM:SS.ss token, processed_frames is N,
\* current_size is K * 1024 and processed_duration is 3600 * HH + 60 * MM +
\* SS, and for a duration D > 0 the dict holds percentage = min(100, 100 *
\* processed_duration / D): frame=120, size=2048kB, time=00:00:04.00 and
\* D = 10 s give 120, 2097152, 4.0 s and 40.
C19_ParseLine ==
    LET frame == search(job.parsed, "frame")
        size == search(job.parsed, "size")
        time == search(job.parsed, "time")
    IN (frame # NoMatch /\ size # NoMatch /\ time # NoMatch) =>
         LET seconds == 360000 * time.h + 6000 * time.m + time.cs
             D == job.stats.duration
         IN /\ job.stats.processed_frames = frame.n
            /\ job.stats.current_size = size.n * 1024
            /\ job.stats.processed_duration = seconds
            /\ D > 0 =>
                 /\ "percentage" \in DOMAIN job.progress
                 /\ LET p == job.progress.percentage
                    IN IF seconds >= D THEN p[1] = 100 * p[2]
                       ELSE p[1] * D = 100 * seconds * p[2]
            /\ (frame.n = 120 /\ size.n = 2048 /\ seconds = 400 /\ D = 1000) =>
                 /\ job.stats.processed_frames = 120
                 /\ job.stats.current_size = 2097152
                 /\ job.stats.processed_duration = 400
                 /\ job.progress.percentage[1] = 40 * job.progress.percentage[2]

C21_NoMatchEmptyRecord ==
    (/\ job.parsed # <<>>
     /\ search(job.parsed, "time") = NoMatch
     /\ search(job.parsed, "frame") = NoMatch
     /\ search(job.parsed, "size") = NoMatch) =>
        /\ job.raised = "none"
        /\ job.stats = job.before
        /\ DOMAIN job.progress = {}

\* C22: task.progress is always within 0..100, it is 0 while the task is
\* Pending, and no step lowers it while the task is shown as being processed,
\* whatever lines ffmpeg writes.
C22_ProgressPercentage ==
    [][\A t \in 1..Len(tasks') :
         /\ progress'[t] \in 0..100
         /\ status'[t] = PENDING => progress'[t] = 0
         /\ (t \in Ids /\ State(status[t]) = "Running"
               /\ State(status'[t]) = "Running") => progress'[t] >= progress[t]]_vars

\* A task is being processed, the progress signal of its worker's
\* "Processing <file>..." has been delivered, progress_handler has handled a
\* line of ffmpeg since (its progress signal is queued), and the task's
\* progress is 0.
C22_Witness ==
    \E t \in Ids :
        /\ t \in Running
        /\ wpc[t] = "encode"
        /\ status[t] = MSG
        /\ \E i \in 1..Len(queue) : queue[i] = progress_event(t)
        /\ progress[t] = 0

\* C23: when parse_ffmpeg_progress has derived a percentage for a line (the
\* dict has a "percentage" entry), the job has emitted a progress signal with
\* the formatted text and a percentage signal carrying the percentage, which
\* is what sets task.progress.
C23_PercentageRelayed ==
    (job.parsed # <<>> /\ "percentage" \in DOMAIN job.progress) =>
        /\ job.progress_signals > 0
        /\ job.percentage_signals > 0

\* A malformed request: a CRF outside 0..51, a resolution with an odd or
\* non-positive side or a refused aspect ratio, a bitrate under 100K.
malformed(r) ==
    \/ r.crf \notin 0..51
    \/ /\ r.resolution # None
       /\ \/ r.resolution[1] % 2 # 0 \/ r.resolution[2] % 2 # 0
          \/ r.resolution[1] <= 0 \/ r.resolution[2] <= 0
          \/ ~validate_aspect_ratio(r.resolution[1], r.resolution[2])
    \/ /\ r.bitrate # None
       /\ r.bitrate[2] = "K" /\ r.bitrate[1] < 100

\* The settings that would give the tasks a malformed request.
MalformedSettings == {settings \in Settings : malformed(request(settings))}

\* C24: a click on "Compress" whose settings would give the tasks a malformed
\* request creates no task: tasks, their statuses and progress, the workers
\* in active_workers and their threads, processes and signals are as before.
C24_MalformedRejected ==
    [][\A settings \in MalformedSettings, n \in 1..MaxTasks :
         start_compression(n, settings) =>
             UNCHANGED <<tasks, status, progress, active_workers, wpc, proc, queue>>]_vars

\* With a task being processed and another Pending, a click with refused
\* settings has just returned.
C24_Witness ==
    /\ last = Refused
    /\ \E t \in Ids : t \in Running
    /\ PendingIds # {}

\* C25: the delivery of a progress, percentage or finished signal of a task
\* that is Cancelled (its worker queued the signal before cancel_task
\* terminated it) leaves the task Cancelled and out of active_workers.
C25_LateEventsIgnored ==
    [][\A t \in Ids :
         (/\ status[t] = CANCELLED
          /\ queue # <<>>
          /\ Head(queue).id = t
          /\ (on_progress \/ on_finished)) =>
             /\ status'[t] = CANCELLED
             /\ t \notin Range(active_workers')]_vars

\* C26: in every state the tasks shown as being processed are those with a
\* worker in active_workers, each with one worker only, and every ffmpeg
\* process that is alive belongs to a task that is being processed.
C26_OneJobPerRunningTask ==
    /\ \A t \in Ids : State(status[t]) = "Running" <=> t \in Range(active_workers)
    /\ \A i, j \in 1..Len(active_workers) :
         active_workers[i] = active_workers[j] => i = j
    /\ \A t \in Ids : proc[t] = "running" => State(status[t]) = "Running"

\* C27: after task_finished or cancel_task has run (its admission step
\* included), no task is Pending while active_workers holds fewer workers than
\* maxThreadCount allows.
C27_NoFreeSlotWhilePending ==
    [][(last'[1] \in {"task_finished", "cancel_task"}) =>
          \/ \A t \in 1..Len(tasks') : status'[t] # PENDING
          \/ Len(active_workers') >= maxThreadCount']_vars

\* C28: ffmpeg never waits for ever in a write to one of its two pipes: its
\* stdout is read as it writes it, and whenever its stderr pipe is full the
\* job is in the monitoring loop, about to read a line.
C28_PipesDrained ==
    /\ job.process # "blocked"
    /\ (job.process = "running" /\ Len(job.stderr) = MaxPipe) => job.pc = "monitor"

\* C29: in a job with a temp_dir, output_path holds a file put there by the
\* job only after ffmpeg has exited with code 0 and the job has passed the
\* move; until then ffmpeg has written temp_output only, and output_path is
\* absent or holds the file that was there before.
C29_ScratchProtectsOutput ==
    (job.temp_dir /\ job.output = "new") =>
        /\ job.process = "exited"
        /\ job.returncode = 0
        /\ job.pc \in {"result", "done"}

\* In a job with a temp_dir, ffmpeg wrote a part of temp_output and exited
\* with code 1; the job has ended, and output_path still holds the file that
\* was there before.
C29_Witness ==
    /\ job.pc = "done"
    /\ job.temp_dir
    /\ job.process = "exited"
    /\ job.returncode = 1
    /\ "temp_output" \in job.files
    /\ job.output = "old"
    /\ "output_path" \in job.files

\* C30: a job with a temp_dir that has launched ffmpeg and ended with a
\* failure (ffmpeg exited with a code other than 0, or an exception was
\* raised) has removed temp_output, and its message names that failure.
C30_FailureRemovesScratch ==
    (/\ job.pc = "done"
     /\ job.temp_dir
     /\ job.process # "none"
     /\ ~job.result.success) =>
        /\ "temp_output" \notin job.files
        /\ job.result.message \in {"Compression failed", "Error during compression",
                                   "Output file was not created"}

====
